---- MODULE Spec2Model ----
(***************************************************************************)
(* The client's session-continuity layer of the marketplace frontend:      *)
(*   - frontend/src/api/index.ts        the axios response interceptor     *)
(*     (isRefreshing, failedQueue, processQueue),                          *)
(*   - frontend/src/stores/authStore.ts checkAuth / login / logout and the *)
(*     proactive refresh timer,                                            *)
(*   - frontend/src/stores/useCartStore.ts  the optimistic cart and        *)
(*     wishlist stores,                                                    *)
(*   - components/CartItemRow.tsx       a cart line with its debounced     *)
(*     quantity buttons.                                                   *)
(* One action is one task of the browser's event loop: a user call, a      *)
(* timer tick, or the arrival of a transport response together with every  *)
(* promise continuation (microtask) that runs before the next task.        *)
(***************************************************************************)
EXTENDS Integers, Sequences, FiniteSets, TLC

\* Bounds of the model.
MaxReq == 3
MaxProactive == 1
MaxCalls == 2
MaxQty == 2
MaxEdit == 3
MaxSent == 3

Products == {1, 2}

\* The requests: the callers submit at most MaxReq of them, and one more is
\* left for the logout the interceptor itself may issue.
ReqIds == 1..(MaxReq + 1)

\* URLs of the consumed HTTP surface.
RefreshUrl == "/api/token/refresh/"
CallUrl == "/carts/"
LoginUrl == "/user/login/"
ProfileUrl == "/user/profile/"
LogoutUrl == "/user/logout/"

\* HTTP outcomes of one transport call: success, unauthorized, 403 for every
\* other status, and 0 for a failure without a response (no error.response).
Statuses == {200, 401, 403, 0}
ErrorStatuses == Statuses \ {200}

VARIABLES
    isRefreshing,       \* api/index.ts: let isRefreshing
    failedQueue,        \* api/index.ts: let failedQueue, as a sequence of request ids
    req,                \* every request passed to apiClient, by submission number
    proactive,          \* refresh calls of the timer that are in flight
    user,               \* authStore: user
    isLoggedIn,         \* authStore: isLoggedIn
    refreshIntervalId,  \* authStore: let refreshIntervalId (TRUE: a timer runs)
    last,               \* history: what the task that led to this state did
    forcedId,           \* history: the logout request forced by a failed renewal (0: none)
    stale,              \* history: requests in flight since before a logout that completed
    sinceLogout         \* history: logout() was invoked and no login or checkAuth succeeded since

VARIABLES
    items,              \* useCartStore: items, a sequence of [product, quantity]
    total_items,        \* useCartStore: total_items
    wishlistIds,        \* useWishlistStore: wishlistIds
    wishlistItems,      \* useWishlistStore: wishlistItems, by their product ids
    pending,            \* optimistic mutations whose commit call has not settled
    fetches,            \* GET /carts/, POST /carts/add/, GET /wishlists/ in flight
    lastCommit,         \* history: the mutation whose commit settled in the last task
    accepted            \* history: the fetched data with every accepted mutation applied

VARIABLES
    row,                \* CartItemRow of product RowProduct: quantity, debouncedQuantity, timer
    lastRow,            \* history: what the last task of the cart page did
    tally               \* history: PATCH calls of the row, debounced edits of the user

apiVars == <<isRefreshing, failedQueue, req, proactive, user, isLoggedIn,
             refreshIntervalId, last, forcedId, stale, sinceLogout>>

storeVars == <<items, total_items, wishlistIds, wishlistItems, pending, fetches,
               lastCommit, accepted>>

rowVars == <<row, lastRow, tally>>

vars == <<apiVars, storeVars, rowVars>>

----------------------------------------------------------------------------
\* Values

\* What a settled promise carries: the response (or error) of attempt `att` of
\* request `id`; id 0 is the renewal call.
Outcome(kind, id, att, status) ==
    [kind |-> kind, id |-> id, att |-> att, status |-> status]

NoResult == Outcome("none", 0, 0, 0)

\* A request: its URL, where its caller's promise stands (pc), the _retry mark
\* of its config and the number of times it went to the transport.
Unused == [url |-> "none", pc |-> "unused", retry |-> FALSE, sends |-> 0]

\* A request whose caller is settled: its config and its promise are garbage.
Settled == [url |-> "none", pc |-> "settled", retry |-> FALSE, sends |-> 0]

\* The record of one task: the handler that ran (op), the request whose
\* transport call returned (id; for a renewal, the request that started it) and
\* with which status, failedQueue as the handler found it, the requests it
\* handed back to the transport, in order (replay), the callers it settled with
\* what (settled), isLoggedIn as the handler found it and the number of the
\* logout request it issued (forced, 0 for none).
Event(op, id, status, queue, replay, settled, wasLoggedIn, forced) ==
    [op |-> op, id |-> id, status |-> status, queue |-> queue, replay |-> replay,
     settled |-> settled, wasLoggedIn |-> wasLoggedIn, forced |-> forced]

NoEvent == Event("none", 0, 0, <<>>, <<>>, {}, FALSE, 0)

Settlement(id, out) == [id |-> id, ok |-> out.kind = "response", out |-> out]

Range(s) == {s[i] : i \in 1..Len(s)}

Used == {r \in ReqIds : req[r].pc # "unused"}

\* Requests are numbered in the order in which apiClient is called.
NextId == Cardinality(Used) + 1

\* The session: authStore's user and isLoggedIn, and the timer handle.  The
\* store's isLoading and error are display fields that no handler reads; they
\* are not part of the model.
Session == [user |-> user, isLoggedIn |-> isLoggedIn, timer |-> refreshIntervalId]

----------------------------------------------------------------------------
\* authStore.ts

startProactiveTokenRefresh(s) == [s EXCEPT !.timer = TRUE]

stopProactiveTokenRefresh(s) == [s EXCEPT !.timer = FALSE]

\* The synchronous part of checkAuth, login and logout, up to the await.
checkAuthBegin(s) == s

loginBegin(s) == s

\* Variant: logout() leaves the timer to run until somebody stops it.
logoutBeginKeepsTimer(s) == s

logoutBegin(s) == stopProactiveTokenRefresh(s)

\* The continuation of the caller after its awaited apiClient call settled.
checkAuthEnd(s, ok) ==
    IF ok
    THEN startProactiveTokenRefresh(
             [s EXCEPT !.user = "user", !.isLoggedIn = TRUE])
    ELSE stopProactiveTokenRefresh(
             [s EXCEPT !.user = "null", !.isLoggedIn = FALSE])

loginEnd(s, ok) ==
    IF ok
    THEN startProactiveTokenRefresh(
             [s EXCEPT !.user = "user", !.isLoggedIn = TRUE])
    ELSE s

logoutEnd(s, ok) ==
    [s EXCEPT !.user = "null", !.isLoggedIn = FALSE]

OnSettle(s, url, ok) ==
    CASE url = ProfileUrl -> checkAuthEnd(s, ok)
      [] url = LoginUrl -> loginEnd(s, ok)
      [] url = LogoutUrl -> logoutEnd(s, ok)
      [] OTHER -> s

\* The continuations of the requests of `ids`, which all settle (ok or not) in
\* one task, run in that order.
RECURSIVE SettleAll(_, _, _)
SettleAll(s, ids, ok) ==
    IF ids = <<>> THEN s
    ELSE SettleAll(OnSettle(s, req[Head(ids)].url, ok), Tail(ids), ok)

----------------------------------------------------------------------------
\* api/index.ts

\* apiClient(config): one more attempt of the request goes to the transport.
Send(rq) == [rq EXCEPT !.pc = "flight", !.sends = @ + 1]

\* Variant: the success handler unwraps the response, (response) => response.data.
OnFulfilledData(response) == [response EXCEPT !.kind = "data"]

\* (response) => response
OnFulfilled(response) == response

\* Variant: the URL of the failed call is not looked at.
IsRenewableAnyUrl(status, url) == status = 401

\* Variant: 403 is taken for an expired credential too.
IsRenewableForbidden(status, url) == status \in {401, 403} /\ url # RefreshUrl

\* The renewal may be started for this 401: not the renewal call itself.
IsRenewable(status, url) == status = 401 /\ url # RefreshUrl

Reverse(s) == [i \in 1..Len(s) |-> s[Len(s) + 1 - i]]

\* Variant: failedQueue is emptied before it is walked, nobody is settled.
processQueueEmptied(rs, queue, error) == rs

\* Variant: the error is not looked at, every queued request is replayed.
processQueueIgnoresError(rs, queue, error) ==
    [r \in ReqIds |-> IF r \in Range(queue) THEN Send(rs[r]) ELSE rs[r]]

\* processQueue(error, token): every queued promise is rejected with the error,
\* or resolved, and then its .then() replays the request.
processQueue(rs, queue, error) ==
    [r \in ReqIds |->
        IF r \in Range(queue)
        THEN IF error.kind = "error" THEN Settled ELSE Send(rs[r])
        ELSE rs[r]]

\* What processQueue hands to the callers it rejects.
QueueSettlements(queue, error) ==
    IF error.kind = "error"
    THEN {Settlement(queue[i], error) : i \in 1..Len(queue)}
    ELSE {}

\* Variant: the original request is replayed after the queued ones.
ReplayQueueFirst(trigger, queue) == queue \o <<trigger>>

\* Variant: the queue is walked from the back (a stack).
ReplayLifo(trigger, queue) == <<trigger>> \o Reverse(queue)

\* The order in which the success branch hands requests back to the transport:
\* line 59 runs in the handler itself, the queued .then() callbacks run as
\* microtasks after it, in the order of failedQueue.forEach.
ReplayOrder(trigger, queue) == <<trigger>> \o queue

----------------------------------------------------------------------------
\* State after construction

Fresh == [user |-> "null", isLoggedIn |-> FALSE, timer |-> FALSE]

SetSession(s) ==
    /\ user' = s.user
    /\ isLoggedIn' = s.isLoggedIn
    /\ refreshIntervalId' = s.timer

InitApi ==
    /\ isRefreshing = FALSE
    /\ failedQueue = <<>>
    /\ req = [r \in ReqIds |-> Unused]
    /\ proactive = 0
    /\ last = NoEvent
    /\ forcedId = 0
    /\ stale = {}
    /\ sinceLogout = FALSE
    /\ user = Fresh.user
    /\ isLoggedIn = Fresh.isLoggedIn
    /\ refreshIntervalId = Fresh.timer

\* The requests whose caller is waiting: sent, queued or renewing.
Waiting(rs) == {r \in ReqIds : rs[r].pc \notin {"unused", "settled"}}

\* The task settled the callers of `done` (leaving the requests rs) and forced
\* the logout request `forced` (0: none).  A logout whose call settled has
\* completed: the requests submitted before it that are still waiting are from
\* before that logout.
Track(rs, done, forced) ==
    /\ stale' = {q \in Waiting(rs) :
                    \/ q \in stale
                    \/ \E r \in done : req[r].url = LogoutUrl /\ q < r}
    /\ forcedId' = IF forced # 0 THEN forced
                   ELSE IF forcedId \in done THEN 0 ELSE forcedId

----------------------------------------------------------------------------
\* Calls made through apiClient

NewRequest(url) == [url |-> url, pc |-> "flight", retry |-> FALSE, sends |-> 1]

Submit(url) ==
    /\ NextId <= MaxReq
    /\ req' = [req EXCEPT ![NextId] = NewRequest(url)]
    /\ last' = NoEvent
    /\ UNCHANGED <<isRefreshing, failedQueue, proactive, forcedId, stale>>
    /\ UNCHANGED <<storeVars, rowVars>>

\* Any component calling apiClient (fetchCart's GET /carts/, a commit, ...).
ApiCall ==
    /\ Submit(CallUrl)
    /\ UNCHANGED <<user, isLoggedIn, refreshIntervalId, sinceLogout>>

\* The requests to one of `urls` whose caller is not settled yet.  The user
\* starts a sign-in (checkAuth, login) only when none is pending, and a logout
\* only when no logout is pending.
Pending(urls) == {r \in ReqIds : req[r].url \in urls}

CheckAuth ==
    /\ Pending({ProfileUrl, LoginUrl}) = {}
    /\ Submit(ProfileUrl)
    /\ SetSession(checkAuthBegin(Session))
    /\ UNCHANGED sinceLogout

Login ==
    /\ Pending({ProfileUrl, LoginUrl}) = {}
    /\ Submit(LoginUrl)
    /\ SetSession(loginBegin(Session))
    /\ UNCHANGED sinceLogout

\* The logout controls are rendered, and LoginForm calls logout(), only when
\* isLoggedIn.
Logout ==
    /\ isLoggedIn
    /\ Pending({LogoutUrl}) = {}
    /\ Submit(LogoutUrl)
    /\ SetSession(logoutBegin(Session))
    /\ sinceLogout' = TRUE

----------------------------------------------------------------------------
\* The response interceptor

\* A response with a 2xx status arrives for attempt req[r].sends of request r.
OnResponse(r) ==
    /\ req[r].pc = "flight"
    /\ LET response == Outcome("response", r, req[r].sends, 200)
       IN  last' = Event("response", r, 200, failedQueue, <<>>,
                         {Settlement(r, OnFulfilled(response))}, FALSE, 0)
    /\ req' = [req EXCEPT ![r] = Settled]
    /\ SetSession(OnSettle(Session, req[r].url, TRUE))
    /\ Track([req EXCEPT ![r] = Settled], {r}, 0)
    /\ sinceLogout' = (sinceLogout /\ req[r].url \notin {LoginUrl, ProfileUrl})
    /\ UNCHANGED <<isRefreshing, failedQueue, proactive>>

RespondOk(r) ==
    /\ OnResponse(r)
    /\ UNCHANGED <<storeVars, rowVars>>

\* Variant: the handler does not look at isRefreshing.
ErrorBranchNoFlag(status, url, retried, refreshing) ==
    IF IsRenewable(status, url)
    THEN IF retried THEN "reject" ELSE "renew"
    ELSE "reject"

\* Variant: no queue; a 401 during a renewal is rejected to its caller.
ErrorBranchNoQueue(status, url, retried, refreshing) ==
    IF IsRenewable(status, url)
    THEN IF retried \/ refreshing THEN "reject" ELSE "renew"
    ELSE "reject"

\* The error handler's decision for an error of a request (lines 29-75).
\* Variant: the _retry mark is not looked at.
ErrorBranchNoRetryMark(status, url, retried, refreshing) ==
    IF IsRenewable(status, url)
    THEN IF refreshing THEN "enqueue" ELSE "renew"
    ELSE "reject"

ErrorBranch(status, url, retried, refreshing) ==
    IF IsRenewable(status, url)
    THEN IF retried THEN "reject"
         ELSE IF refreshing THEN "enqueue"
         ELSE "renew"
    ELSE "reject"

\* A failure arrives for attempt req[r].sends of request r.
RespondError(r, status) ==
    /\ req[r].pc = "flight"
    /\ status \in ErrorStatuses
    /\ LET error == Outcome("error", r, req[r].sends, status)
           branch == ErrorBranch(status, req[r].url, req[r].retry, isRefreshing)
       IN  CASE branch = "reject" ->
                  /\ req' = [req EXCEPT ![r] = Settled]
                  /\ last' = Event("error", r, status, failedQueue, <<>>,
                                   {Settlement(r, error)}, FALSE, 0)
                  /\ SetSession(OnSettle(Session, req[r].url, FALSE))
                  /\ Track([req EXCEPT ![r] = Settled], {r}, 0)
                  /\ UNCHANGED <<isRefreshing, failedQueue>>
             [] branch = "enqueue" ->
                  /\ failedQueue' = Append(failedQueue, r)
                  /\ req' = [req EXCEPT ![r].pc = "queued"]
                  /\ last' = Event("error", r, status, failedQueue, <<>>, {},
                                   FALSE, 0)
                  /\ UNCHANGED <<isRefreshing, user, isLoggedIn, refreshIntervalId,
                                 forcedId, stale>>
             [] branch = "renew" ->
                  /\ isRefreshing' = TRUE
                  /\ req' = [req EXCEPT ![r].pc = "renewing", ![r].retry = TRUE]
                  /\ last' = Event("error", r, status, failedQueue, <<>>, {},
                                   FALSE, 0)
                  /\ UNCHANGED <<failedQueue, user, isLoggedIn, refreshIntervalId,
                                 forcedId, stale>>
    /\ UNCHANGED <<proactive, sinceLogout>>
    /\ UNCHANGED <<storeVars, rowVars>>

\* Variant: the logout is forced without looking at isLoggedIn.
ForcesLogoutAlways(loggedIn) == TRUE

\* Line 64: the logout is forced only for a session that was logged in.
ForcesLogout(loggedIn) == loggedIn

\* The interceptor's decision for a failure of a renewal call (the one of line
\* 56 or the timer's): the call carries no _retry mark.
RenewalCallBranch(status) == ErrorBranch(status, RefreshUrl, FALSE, isRefreshing)

\* The renewal call started for request r (line 56) returns.
RefreshRespond(r, status) ==
    /\ req[r].pc = "renewing"
    /\ status \in Statuses
    /\ (status # 200 /\ ForcesLogout(isLoggedIn)) => NextId \in ReqIds
    /\ IF status = 200
       THEN \* try: processQueue(null), replay the original request
            /\ req' = [processQueue(req, failedQueue, NoResult) EXCEPT ![r] = Send(@)]
            /\ last' = Event("renewal", r, status, failedQueue,
                             ReplayOrder(r, failedQueue), {}, isLoggedIn, 0)
            /\ failedQueue' = <<>>
            /\ isRefreshing' = FALSE
            /\ UNCHANGED <<user, isLoggedIn, refreshIntervalId, forcedId, stale,
                           sinceLogout>>
       ELSE IF RenewalCallBranch(status) # "reject"
       THEN \* the interceptor takes the renewal call's own failure for a 401
            \* to recover from: its promise (0) waits in failedQueue, or a
            \* renewal is started for it, and line 56 never returns
            /\ failedQueue' = IF RenewalCallBranch(status) = "enqueue"
                              THEN Append(failedQueue, 0) ELSE failedQueue
            /\ req' = [req EXCEPT ![r].pc = "hung"]
            /\ last' = Event("renewal", r, status, failedQueue, <<0>>, {},
                             isLoggedIn, 0)
            /\ UNCHANGED <<isRefreshing, user, isLoggedIn, refreshIntervalId,
                           forcedId, stale, sinceLogout>>
       ELSE \* catch: processQueue(refreshError), logout(), reject
            LET refreshError == Outcome("error", 0, 0, status)
                rejected == [processQueue(req, failedQueue, refreshError)
                               EXCEPT ![r] = Settled]
                forced == ForcesLogout(isLoggedIn)
                s0 == IF forced THEN logoutBegin(Session) ELSE Session
            IN  /\ req' = IF forced
                          THEN [rejected EXCEPT ![NextId] = NewRequest(LogoutUrl)]
                          ELSE rejected
                /\ last' = Event("renewal", r, status, failedQueue, <<>>,
                                 QueueSettlements(failedQueue, refreshError)
                                    \cup {Settlement(r, refreshError)},
                                 isLoggedIn, IF forced THEN NextId ELSE 0)
                /\ SetSession(SettleAll(s0, Append(failedQueue, r), FALSE))
                /\ Track(rejected, Range(failedQueue) \cup {r},
                         IF forced THEN NextId ELSE 0)
                /\ sinceLogout' = (sinceLogout \/ forced)
                \* processQueue: failedQueue = []; finally: isRefreshing = false
                /\ failedQueue' = <<>>
                /\ isRefreshing' = FALSE
    /\ UNCHANGED proactive
    /\ UNCHANGED <<storeVars, rowVars>>

----------------------------------------------------------------------------
\* The proactive refresh timer (authStore.ts, startProactiveTokenRefresh)

\* Variant: the timer's catch block gives the session up and stops the timer.
ProactiveFailedStops(s) == stopProactiveTokenRefresh(s)

\* The timer's catch block: console.error, nothing else.
ProactiveFailed(s) == s

TimerTick ==
    /\ refreshIntervalId
    /\ proactive < MaxProactive
    /\ proactive' = proactive + 1
    /\ last' = NoEvent
    /\ UNCHANGED <<isRefreshing, failedQueue, req, user, isLoggedIn,
                   refreshIntervalId, forcedId, stale, sinceLogout>>
    /\ UNCHANGED <<storeVars, rowVars>>

\* The timer's refresh call returns; a failure is rejected by the interceptor
\* (the URL is the renewal URL) and only logged by the timer's catch.
ProactiveRespond(status) ==
    /\ proactive > 0
    /\ status \in Statuses
    /\ LET branch == IF status = 200 THEN "resolve" ELSE RenewalCallBranch(status)
       IN  CASE branch \in {"resolve", "reject"} ->
                  \* the await returns, or the catch block logs the error
                  /\ proactive' = proactive - 1
                  /\ last' = Event("proactive", 0, status, failedQueue, <<>>, {},
                                   FALSE, 0)
                  /\ SetSession(IF branch = "reject"
                                THEN ProactiveFailed(Session) ELSE Session)
                  /\ UNCHANGED <<isRefreshing, failedQueue>>
             [] branch = "enqueue" ->
                  /\ proactive' = proactive - 1
                  /\ failedQueue' = Append(failedQueue, 0)
                  /\ last' = Event("proactive", 0, status, failedQueue, <<>>, {},
                                   FALSE, 0)
                  /\ UNCHANGED <<isRefreshing, user, isLoggedIn, refreshIntervalId>>
             [] branch = "renew" ->
                  \* a renewal call is sent for the failed renewal call
                  /\ proactive' = proactive
                  /\ isRefreshing' = TRUE
                  /\ last' = Event("proactive", 0, status, failedQueue, <<0>>, {},
                                   FALSE, 0)
                  /\ UNCHANGED <<failedQueue, user, isLoggedIn, refreshIntervalId>>
    /\ UNCHANGED <<req, forcedId, stale, sinceLogout>>
    /\ UNCHANGED <<storeVars, rowVars>>

----------------------------------------------------------------------------
\* useCartStore.ts: the cart store

\* Variant: the lines are counted, whatever their quantities.
SumQuantityLines(its) == Len(its)

\* items.reduce((sum, item) => sum + item.quantity, 0)
RECURSIVE SumQuantity(_)
SumQuantity(its) ==
    IF its = <<>> THEN 0 ELSE Head(its).quantity + SumQuantity(Tail(its))

\* originalItems.map(item => item.product.id === productId ? {...item, quantity}
\*                          : item).filter(item => item.quantity > 0)
UpdatedItems(its, productId, quantity) ==
    LET mapped == [i \in 1..Len(its) |->
                      IF its[i].product = productId
                      THEN [its[i] EXCEPT !.quantity = quantity]
                      ELSE its[i]]
        Positive(it) == it.quantity > 0
    IN  SelectSeq(mapped, Positive)

\* originalItems.filter(item => item.product.id !== productId)
RemovedItems(its, productId) ==
    LET Other(it) == it.product # productId
    IN  SelectSeq(its, Other)

\* Variant: the catch block restores items and leaves total_items.
CartRollbackItemsOnly(originalItems) ==
    [items |-> originalItems, total_items |-> total_items]

\* The state the catch block of updateItemQuantity / removeFromCart sets.
CartRollback(originalItems) ==
    [items |-> originalItems, total_items |-> SumQuantity(originalItems)]

\* The state the catch block of toggleWishlist sets: set({wishlistIds}).
WishlistRollback(ids) == ids

\* new Set(wishlistIds) with productId deleted or added.
ToggledIds(ids, productId) ==
    IF productId \in ids THEN ids \ {productId} ELSE ids \cup {productId}

\* The carts GET /carts/ can return: at most one line per product, in the
\* server's product order, every quantity positive.
Line(p, q) == [product |-> p, quantity |-> q]

Carts ==
    {<<>>}
    \cup {<<Line(p, q)>> : p \in Products, q \in 1..MaxQty}
    \cup {<<Line(1, q1), Line(2, q2)>> : q1 \in 1..MaxQty, q2 \in 1..MaxQty}

\* An optimistic mutation between its local apply and the settlement of its
\* commit: the closure's snapshot (originalItems, or the destructured
\* wishlistIds) and, for the comparison with the rollback, the whole state of
\* the store at the time the snapshot was taken (before).
Mutation(op, productId, quantity, snapshot, before) ==
    [op |-> op, product |-> productId, quantity |-> quantity,
     snapshot |-> snapshot, before |-> before]

CartState == [items |-> items, total_items |-> total_items]

\* The record of the task that settled a commit call: the mutation and whether
\* the call resolved.
\* The catch block of the operation ends with a throw (addToCart) or returns
\* after alert()/toast.error() (updateItemQuantity, removeFromCart,
\* toggleWishlist; fetchWishlist inside toggleWishlist catches its own errors).
Rethrows(op) == op = "add"

\* How the promise of the async operation settles once its commit call did.
PromiseOf(op, ok) ==
    IF ok THEN "resolved"
    ELSE IF Rethrows(op) THEN "rejected" ELSE "resolved"

NoCommit ==
    [op |-> "none", ok |-> TRUE, mutation |-> Mutation("none", 0, 0, <<>>, <<>>),
     promise |-> "none", shown |-> <<>>]

\* shown: the cart as it was displayed when the commit call settled.
Commit(m, ok) ==
    [op |-> m.op, ok |-> ok, mutation |-> m, promise |-> PromiseOf(m.op, ok),
     shown |-> items]

\* The collections as the server knows them after it accepted mutation m:
\* PATCH /carts/{id}/ {quantity}, DELETE /carts/delete/{id}/, and
\* DELETE /wishlists/delete/{id}/ or POST /wishlists/add/ as isInWishlist chose.
Accept(a, m) ==
    CASE m.op = "update" ->
           [a EXCEPT !.cart = UpdatedItems(@, m.product, m.quantity)]
      [] m.op = "remove" ->
           [a EXCEPT !.cart = RemovedItems(@, m.product)]
      [] m.op = "toggle" ->
           [a EXCEPT !.ids = IF m.product \in m.snapshot
                             THEN @ \ {m.product} ELSE @ \cup {m.product}]
      [] OTHER -> a

RemoveAt(s, i) == SubSeq(s, 1, i - 1) \o SubSeq(s, i + 1, Len(s))

\* The calls of the two stores that are in flight; one more may start.
InFlight == Len(pending) + fetches.cart + fetches.add + fetches.wishlist

MayCall == InFlight < MaxCalls

\* The two stores share no state and no call: an operation of one commutes
\* with every operation of the other.  The model runs them one at a time: a
\* store acts while the other one is in its initial state with no call in flight.
CartIdle ==
    /\ items = <<>> /\ total_items = 0
    /\ fetches.cart = 0 /\ fetches.add = 0
    /\ \A i \in 1..Len(pending) : pending[i].op = "toggle"

WishlistIdle ==
    /\ wishlistIds = {} /\ wishlistItems = {}
    /\ fetches.wishlist = 0
    /\ \A i \in 1..Len(pending) : pending[i].op # "toggle"

InitStore ==
    /\ items = <<>>
    /\ total_items = 0
    /\ wishlistIds = {}
    /\ wishlistItems = {}
    /\ pending = <<>>
    /\ fetches = [cart |-> 0, add |-> 0, wishlist |-> 0]
    /\ lastCommit = NoCommit
    /\ accepted = [cart |-> <<>>, ids |-> {}]

\* fetchCart(): GET /carts/ is sent.
FetchCart ==
    /\ MayCall /\ WishlistIdle
    /\ fetches' = [fetches EXCEPT !.cart = @ + 1]
    /\ UNCHANGED <<items, total_items, wishlistIds, wishlistItems, pending>>
    /\ lastCommit' = NoCommit
    /\ UNCHANGED accepted
    /\ UNCHANGED <<apiVars, rowVars>>

\* GET /carts/ settles: the response data replaces the cart; a failure is
\* logged and leaves it.
FetchCartDone(ok, data) ==
    /\ fetches.cart > 0
    /\ IF ok
       THEN /\ items' = data
            /\ total_items' = SumQuantity(data)
       ELSE UNCHANGED <<items, total_items>>
    /\ fetches' = [fetches EXCEPT !.cart = @ - 1]
    /\ UNCHANGED <<wishlistIds, wishlistItems, pending>>
    /\ lastCommit' = NoCommit
    /\ accepted' = IF ok THEN [accepted EXCEPT !.cart = data] ELSE accepted
    /\ UNCHANGED <<apiVars, rowVars>>

\* addToCart(): POST /carts/add/ is sent.
AddToCart ==
    /\ MayCall /\ WishlistIdle
    /\ fetches' = [fetches EXCEPT !.add = @ + 1]
    /\ UNCHANGED <<items, total_items, wishlistIds, wishlistItems, pending>>
    /\ lastCommit' = NoCommit
    /\ UNCHANGED accepted
    /\ UNCHANGED <<apiVars, rowVars>>

\* POST /carts/add/ settles: on success fetchCart() is called, a failure is
\* rethrown to the caller.
AddToCartDone(ok) ==
    /\ fetches.add > 0
    /\ fetches' = [fetches EXCEPT !.add = @ - 1,
                                  !.cart = IF ok THEN @ + 1 ELSE @]
    /\ UNCHANGED <<items, total_items, wishlistIds, wishlistItems, pending>>
    /\ lastCommit' = NoCommit
    /\ UNCHANGED accepted
    /\ UNCHANGED <<apiVars, rowVars>>

\* The quantity shown for product p in the cart its (0: no line).
Entry(its, p) ==
    IF \E i \in 1..Len(its) : its[i].product = p
    THEN (CHOOSE it \in Range(its) : it.product = p).quantity
    ELSE 0

\* The cart lines on display: CartItemRow is rendered per item of the store,
\* and its handlers are the callers of updateItemQuantity and removeFromCart.
HasLine(productId) == \E i \in 1..Len(items) : items[i].product = productId

updateItemQuantity(productId, quantity) ==
    /\ MayCall /\ WishlistIdle
    /\ HasLine(productId)
    /\ LET originalItems == items
           newItems == UpdatedItems(originalItems, productId, quantity)
       IN  /\ items' = newItems
           /\ total_items' = SumQuantity(newItems)
           /\ pending' = Append(pending,
                                Mutation("update", productId, quantity, originalItems, CartState))
    /\ UNCHANGED <<wishlistIds, wishlistItems, fetches>>
    /\ lastCommit' = NoCommit
    /\ UNCHANGED accepted
    /\ UNCHANGED <<apiVars, rowVars>>

removeFromCart(productId) ==
    /\ MayCall /\ WishlistIdle
    /\ HasLine(productId)
    /\ LET originalItems == items
           newItems == RemovedItems(originalItems, productId)
       IN  /\ items' = newItems
           /\ total_items' = SumQuantity(newItems)
           /\ pending' = Append(pending,
                                Mutation("remove", productId, 0, originalItems, CartState))
    /\ UNCHANGED <<wishlistIds, wishlistItems, fetches>>
    /\ lastCommit' = NoCommit
    /\ UNCHANGED accepted
    /\ UNCHANGED <<apiVars, rowVars>>

----------------------------------------------------------------------------
\* useCartStore.ts (second part): the wishlist store

FetchWishlist ==
    /\ MayCall /\ CartIdle
    /\ fetches' = [fetches EXCEPT !.wishlist = @ + 1]
    /\ UNCHANGED <<items, total_items, wishlistIds, wishlistItems, pending>>
    /\ lastCommit' = NoCommit
    /\ UNCHANGED accepted
    /\ UNCHANGED <<apiVars, rowVars>>

FetchWishlistDone(ok, data) ==
    /\ fetches.wishlist > 0
    /\ IF ok
       THEN /\ wishlistItems' = data
            /\ wishlistIds' = data
       ELSE UNCHANGED <<wishlistIds, wishlistItems>>
    /\ fetches' = [fetches EXCEPT !.wishlist = @ - 1]
    /\ UNCHANGED <<items, total_items, pending>>
    /\ lastCommit' = NoCommit
    /\ accepted' = IF ok THEN [accepted EXCEPT !.ids = data] ELSE accepted
    /\ UNCHANGED <<apiVars, rowVars>>

toggleWishlist(productId) ==
    /\ MayCall /\ CartIdle
    /\ wishlistIds' = ToggledIds(wishlistIds, productId)
    /\ pending' = Append(pending,
                         Mutation("toggle", productId, 0, wishlistIds, wishlistIds))
    /\ UNCHANGED <<items, total_items, wishlistItems, fetches>>
    /\ lastCommit' = NoCommit
    /\ UNCHANGED accepted
    /\ UNCHANGED <<apiVars, rowVars>>

\* The commit call of pending[i] (PATCH, DELETE or POST) resolves.  After a
\* toggle the wishlist is fetched again.
CommitOk(i) ==
    /\ i \in 1..Len(pending)
    /\ pending' = RemoveAt(pending, i)
    /\ fetches' = IF pending[i].op = "toggle"
                  THEN [fetches EXCEPT !.wishlist = @ + 1]
                  ELSE fetches
    /\ UNCHANGED <<items, total_items, wishlistIds, wishlistItems>>
    /\ lastCommit' = Commit(pending[i], TRUE)
    /\ accepted' = Accept(accepted, pending[i])
    /\ UNCHANGED <<apiVars, rowVars>>

\* The commit call of pending[i] is rejected: the catch block rolls back.
CommitFail(i) ==
    /\ i \in 1..Len(pending)
    /\ pending' = RemoveAt(pending, i)
    /\ IF pending[i].op = "toggle"
       THEN /\ wishlistIds' = WishlistRollback(pending[i].snapshot)
            /\ UNCHANGED <<items, total_items>>
       ELSE /\ items' = CartRollback(pending[i].snapshot).items
            /\ total_items' = CartRollback(pending[i].snapshot).total_items
            /\ UNCHANGED wishlistIds
    /\ UNCHANGED <<wishlistItems, fetches>>
    /\ lastCommit' = Commit(pending[i], FALSE)
    /\ UNCHANGED accepted
    /\ UNCHANGED <<apiVars, rowVars>>

----------------------------------------------------------------------------
\* components/CartItemRow.tsx: one line of the cart page, with its quantity
\* buttons.  The page shows a cart of one line, of product RowProduct.

RowProduct == 1

\* The carts GET /carts/ returns while the cart page is open.
RowCarts == {<<>>} \cup {<<Line(RowProduct, q)>> : q \in 1..MaxQty}

\* No row: the cart has no line of the product.
Unmounted == [mounted |-> FALSE, quantity |-> 0, debounced |-> 0, timer |-> FALSE]

\* First render: useState(item.quantity), and useDebounce starts with its value.
Mounted(q) == [mounted |-> TRUE, quantity |-> q, debounced |-> q, timer |-> FALSE]

\* hooks/useDebounce(value, 500): a new value cancels the pending timer and
\* arms a new one; the debounced value is left alone.
Debounce(rw, value) == [rw EXCEPT !.quantity = value, !.timer = TRUE]

\* The quiet window elapsed: the debounced value becomes the latest value.
DebounceFire(rw) == [rw EXCEPT !.debounced = rw.quantity, !.timer = FALSE]

\* The part of the state the handlers of the cart page work on; calls: the
\* quantities of the PATCH calls issued in this task, in order.
PageState == [items |-> items, pending |-> pending, row |-> row, calls |-> <<>>]

\* updateItemQuantity(productId, quantity) of the store, on a page state.
StoreUpdate(st, productId, quantity) ==
    [st EXCEPT
        !.items = UpdatedItems(st.items, productId, quantity),
        !.pending = Append(@, Mutation("update", productId, quantity, st.items,
                                       [items |-> st.items,
                                        total_items |-> SumQuantity(st.items)])),
        !.calls = Append(@, quantity)]

\* removeFromCart(productId) of the store, on a page state.
StoreRemove(st, productId) ==
    [st EXCEPT
        !.items = RemovedItems(st.items, productId),
        !.pending = Append(@, Mutation("remove", productId, 0, st.items,
                                       [items |-> st.items,
                                        total_items |-> SumQuantity(st.items)]))]

\* The page renders the rows of the store's items: a row appears with its
\* line (useState takes item.quantity once) and disappears with it; a row that
\* stays keeps its local state whatever item.quantity becomes.
Render(st) ==
    LET q == Entry(st.items, RowProduct)
    IN  IF q = 0 THEN [st EXCEPT !.row = Unmounted]
        ELSE IF ~st.row.mounted THEN [st EXCEPT !.row = Mounted(q)]
        ELSE st

\* useEffect(..., [debouncedQuantity, item.product.id, item.quantity, ...]):
\* the body runs after a render in which one of them changed, and calls the
\* store when the debounced value differs from the item's.  When none changed
\* the values are those of the run before, in which the body left them equal
\* or made them so.
Effect(st) ==
    IF st.row.mounted /\ st.row.debounced # Entry(st.items, RowProduct)
    THEN StoreUpdate(st, RowProduct, st.row.debounced)
    ELSE st

\* A store update or a state update of the row: render, then the effects; the
\* store update made by the effect renders again.
Rerender(st) == Render(Effect(Render(st)))

RowEvent(op, st) == [op |-> op, calls |-> st.calls, before |-> row]

NoRowEvent == [op |-> "none", calls |-> <<>>, before |-> Unmounted]

\* The task ends in page state st.
SetPage(op, st, edited) ==
    /\ items' = st.items
    /\ total_items' = SumQuantity(st.items)
    /\ pending' = st.pending
    /\ row' = st.row
    /\ lastRow' = RowEvent(op, st)
    /\ tally' = [sent |-> tally.sent + Len(st.calls),
                 edits |-> tally.edits + (IF edited THEN 1 ELSE 0)]

InitRow ==
    /\ row = Unmounted
    /\ lastRow = NoRowEvent
    /\ tally = [sent |-> 0, edits |-> 0]

\* The cart page calls fetchCart().
PageFetchCart ==
    /\ MayCall
    /\ fetches' = [fetches EXCEPT !.cart = @ + 1]
    /\ lastRow' = NoRowEvent
    /\ lastCommit' = NoCommit
    /\ UNCHANGED <<items, total_items, wishlistIds, wishlistItems, pending,
                   accepted, row, tally>>
    /\ UNCHANGED apiVars

\* GET /carts/ settles while the page is open.
PageFetchCartDone(ok, data) ==
    /\ fetches.cart > 0
    /\ tally.sent < MaxSent
    /\ SetPage("fetched",
               IF ok THEN Rerender([PageState EXCEPT !.items = data])
               ELSE PageState, FALSE)
    /\ fetches' = [fetches EXCEPT !.cart = @ - 1]
    /\ accepted' = IF ok THEN [accepted EXCEPT !.cart = data] ELSE accepted
    /\ lastCommit' = NoCommit
    /\ UNCHANGED <<wishlistIds, wishlistItems>>
    /\ UNCHANGED apiVars

\* The largest quantity the "+" button goes to.
QuantityLimit == 20

\* Variant: the "+" button has no upper limit.
IncrementedUnclamped(q) == q + 1

\* The quantity after handleIncrement: if (quantity < 20) setQuantity(q => q + 1).
Incremented(q) == IF q < QuantityLimit THEN q + 1 ELSE q

\* The quantity after handleDecrement: if (quantity > 1) setQuantity(q => q - 1).
Decremented(q) == IF q > 1 THEN q - 1 ELSE q

\* A press of "+" or "-" that leaves the row at `value`: setQuantity renders
\* the row with the new value; a press the handler ignores sets no state and
\* renders nothing.
Press(value) ==
    /\ IF value # row.quantity
       THEN SetPage("edit",
                    Rerender([PageState EXCEPT !.row = Debounce(row, value)]),
                    FALSE)
       ELSE SetPage("ignored", PageState, FALSE)
    /\ lastCommit' = NoCommit
    /\ UNCHANGED <<wishlistIds, wishlistItems, fetches, accepted>>
    /\ UNCHANGED apiVars

\* "+" is pressed, on a row below MaxEdit.
handleIncrement ==
    /\ row.mounted
    /\ row.quantity < MaxEdit
    /\ Press(Incremented(row.quantity))

\* "+" is pressed, whatever the row shows.
handleIncrementAny ==
    /\ row.mounted
    /\ Press(Incremented(row.quantity))

\* "-" is pressed.
handleDecrement ==
    /\ row.mounted
    /\ Press(Decremented(row.quantity))

\* The debounce timer fires, 500 ms after the last edit.
DebounceTimeout ==
    /\ row.mounted /\ row.timer
    /\ MayCall
    /\ tally.sent < MaxSent
    /\ SetPage("fire", Rerender([PageState EXCEPT !.row = DebounceFire(row)]),
               row.quantity # row.debounced)
    /\ lastCommit' = NoCommit
    /\ UNCHANGED <<wishlistIds, wishlistItems, fetches, accepted>>
    /\ UNCHANGED apiVars

\* The trash button: removeFromCart(item.product.id).
handleRemove ==
    /\ row.mounted
    /\ MayCall
    /\ SetPage("remove", Rerender(StoreRemove(PageState, RowProduct)), FALSE)
    /\ lastCommit' = NoCommit
    /\ UNCHANGED <<wishlistIds, wishlistItems, fetches, accepted>>
    /\ UNCHANGED apiVars

\* The commit call of pending[i] resolves: the store leaves its state.
PageCommitOk(i) ==
    /\ i \in 1..Len(pending)
    /\ SetPage("confirm", [PageState EXCEPT !.pending = RemoveAt(pending, i)],
               FALSE)
    /\ lastCommit' = Commit(pending[i], TRUE)
    /\ accepted' = Accept(accepted, pending[i])
    /\ UNCHANGED <<wishlistIds, wishlistItems, fetches>>
    /\ UNCHANGED apiVars

\* The commit call of pending[i] is rejected: the catch block rolls the store
\* back, and the page renders the restored items.
PageCommitFail(i) ==
    /\ i \in 1..Len(pending)
    /\ tally.sent < MaxSent
    /\ SetPage("reject",
               Rerender([PageState EXCEPT
                            !.items = CartRollback(pending[i].snapshot).items,
                            !.pending = RemoveAt(pending, i)]), FALSE)
    /\ lastCommit' = Commit(pending[i], FALSE)
    /\ UNCHANGED <<wishlistIds, wishlistItems, fetches, accepted>>
    /\ UNCHANGED apiVars

----------------------------------------------------------------------------
\* The session layer: the interceptor, the auth store and the timer.

Init == InitApi /\ InitStore /\ InitRow

Next ==
    \/ ApiCall
    \/ CheckAuth
    \/ Login
    \/ Logout
    \/ \E r \in ReqIds : RespondOk(r)
    \/ \E r \in ReqIds, s \in ErrorStatuses : RespondError(r, s)
    \/ \E r \in ReqIds, s \in Statuses : RefreshRespond(r, s)
    \/ TimerTick
    \/ \E s \in Statuses : ProactiveRespond(s)

Spec == Init /\ [][Next]_vars

\* The session layer with the cart it fills: the calls to /carts/ are those of
\* fetchCart (the Header calls it on mount and after a login), whose
\* continuation puts the response data into the store.

FetchCartRespond(r, data) ==
    /\ req[r].url = CallUrl
    /\ OnResponse(r)
    /\ items' = data
    /\ total_items' = SumQuantity(data)
    /\ accepted' = [accepted EXCEPT !.cart = data]
    /\ UNCHANGED <<wishlistIds, wishlistItems, pending, fetches, lastCommit>>
    /\ UNCHANGED rowVars

OtherRespond(r) ==
    /\ req[r].url # CallUrl
    /\ RespondOk(r)

NextSession ==
    \/ ApiCall
    \/ CheckAuth
    \/ Login
    \/ Logout
    \/ \E r \in ReqIds : OtherRespond(r)
    \/ \E r \in ReqIds, data \in RowCarts : FetchCartRespond(r, data)
    \/ \E r \in ReqIds, s \in ErrorStatuses : RespondError(r, s)
    \/ \E r \in ReqIds, s \in Statuses : RefreshRespond(r, s)
    \/ TimerTick
    \/ \E s \in Statuses : ProactiveRespond(s)

SpecSession == Init /\ [][NextSession]_vars

\* The optimistic stores: cart and wishlist.

NextStore ==
    \/ FetchCart
    \/ \E ok \in BOOLEAN, data \in Carts : FetchCartDone(ok, data)
    \/ AddToCart
    \/ \E ok \in BOOLEAN : AddToCartDone(ok)
    \/ \E p \in Products, q \in 0..MaxQty : updateItemQuantity(p, q)
    \/ \E p \in Products : removeFromCart(p)
    \/ FetchWishlist
    \/ \E ok \in BOOLEAN, data \in SUBSET Products : FetchWishlistDone(ok, data)
    \/ \E p \in Products : toggleWishlist(p)
    \/ \E i \in 1..MaxCalls : CommitOk(i)
    \/ \E i \in 1..MaxCalls : CommitFail(i)

SpecStore == Init /\ [][NextStore]_vars

\* The cart page: the store's cart with the row of its line on display.

NextPage ==
    \/ PageFetchCart
    \/ \E ok \in BOOLEAN, data \in RowCarts : PageFetchCartDone(ok, data)
    \/ handleIncrement
    \/ handleDecrement
    \/ DebounceTimeout
    \/ handleRemove
    \/ \E i \in 1..MaxCalls : PageCommitOk(i)
    \/ \E i \in 1..MaxCalls : PageCommitFail(i)

SpecPage == Init /\ [][NextPage]_vars

\* The cart page open on a cart whose line is at the lower or at the upper end
\* of the quantities, as fetchCart left it: the walk of the quantity buttons.

InitQuantity ==
    /\ InitApi
    /\ \E q \in {1, QuantityLimit} :
          /\ items = <<Line(RowProduct, q)>>
          /\ total_items = q
          /\ accepted = [cart |-> <<Line(RowProduct, q)>>, ids |-> {}]
          /\ row = Mounted(q)
    /\ wishlistIds = {}
    /\ wishlistItems = {}
    /\ pending = <<>>
    /\ fetches = [cart |-> 0, add |-> 0, wishlist |-> 0]
    /\ lastCommit = NoCommit
    /\ lastRow = NoRowEvent
    /\ tally = [sent |-> 0, edits |-> 0]

NextQuantity ==
    \/ handleIncrementAny
    \/ handleDecrement
    \/ DebounceTimeout

SpecQuantity == InitQuantity /\ [][NextQuantity]_vars

\* Every transport call eventually returns: each request in flight gets a
\* response, and so does each renewal call of the interceptor.
Fairness ==
    /\ \A r \in ReqIds :
          WF_vars(RespondOk(r) \/ \E s \in ErrorStatuses : RespondError(r, s))
    /\ \A r \in ReqIds : WF_vars(\E s \in Statuses : RefreshRespond(r, s))
    /\ WF_vars(\E s \in Statuses : ProactiveRespond(s))

FairSpec == Init /\ [][Next]_vars /\ Fairness

----------------------------------------------------------------------------
\* Properties of the session layer

Blocked == {r \in ReqIds : req[r].pc \in {"queued", "renewing"}}

Renewing == {r \in ReqIds : req[r].pc = "renewing"}

IsSorted(s) == \A i, j \in 1..Len(s) : i < j => s[i] < s[j]

RenewalSucceeded == last.op = "renewal" /\ last.status = 200

RenewalFailed == last.op = "renewal" /\ last.status # 200

\* The requests a renewal episode blocked: the one that started the renewal
\* and the ones queued behind it.
EpisodeRequests == {last.id} \cup Range(last.queue)

\* C1: a call that gets 401 while no renewal is in progress starts the renewal
\* and settles nobody; a successful renewal replays it and settles nobody; the
\* success of the replay resolves the caller with exactly that response of the
\* replay.  None of the three steps changes user or isLoggedIn.
C1_TransparentRecovery ==
    [][\A r \in ReqIds :
          /\ ( /\ req[r].pc = "flight" /\ ~req[r].retry /\ ~isRefreshing
               /\ last'.op = "error" /\ last'.id = r /\ last'.status = 401 )
             => ( /\ req'[r].pc = "renewing"
                  /\ last'.settled = {}
                  /\ user' = user /\ isLoggedIn' = isLoggedIn )
          /\ ( /\ req[r].pc = "renewing"
               /\ last'.op = "renewal" /\ last'.id = r /\ last'.status = 200 )
             => ( /\ req'[r].pc = "flight" /\ req'[r].sends = req[r].sends + 1
                  /\ last'.settled = {}
                  /\ user' = user /\ isLoggedIn' = isLoggedIn )
          /\ ( /\ req[r].pc = "flight" /\ req[r].retry /\ req[r].url = CallUrl
               /\ last'.op = "response" /\ last'.id = r )
             => ( /\ last'.settled =
                        {Settlement(r, Outcome("response", r, req[r].sends, 200))}
                  /\ \A e \in last'.settled : e.ok
                  /\ user' = user /\ isLoggedIn' = isLoggedIn )
      ]_vars

\* The only request ever submitted was resolved with the response of its
\* second attempt: it had started the renewal and was replayed.
C1_Witness ==
    /\ Cardinality(Used) = 1
    /\ last.op = "response"
    /\ \E e \in last.settled : e.ok /\ e.out.att = 2

\* C2 as stated: of two calls in flight together, once the later one has
\* started a renewal, the first 401 of the earlier one starts no second renewal.
C2_Original ==
    [][\A r, q \in ReqIds :
          ( /\ r < q
            /\ req[r].pc = "flight" /\ req[r].sends = 1
            /\ req[q].pc # "settled" /\ req[q].retry )
          => req'[r].pc # "renewing"
      ]_vars

\* C2 as amended: while requests are blocked by 401s (one renewing, the others
\* in failedQueue), exactly one renewal call of the interceptor is in flight
\* for all of them, however many they are.
C2_OneRenewalPerEpisode ==
    Blocked # {} =>
        /\ isRefreshing
        /\ Cardinality(Renewing) = 1
        /\ Blocked \ Renewing = Range(failedQueue)

C2_Witness == Cardinality(Blocked) = 3 /\ Len(failedQueue) = 2

\* C3: at most one renewal call is in flight, those of the interceptor and
\* those of the timer counted together.
C3_SingleFlight == Cardinality(Renewing) + proactive <= 1

\* C4: a call that received 401 and waits for a renewal (its own or another
\* one's) is eventually settled.
C4_EverySettles ==
    \A r \in ReqIds : (req[r].pc \in {"queued", "renewing"}) ~> (req[r].pc = "settled")

\* A request settled by the error of its third attempt: it was queued, was
\* replayed, started a renewal of its own and was replayed again.
C4_Witness ==
    /\ last.op = "error"
    /\ \E e \in last.settled : e.out.att = 3

C7_RenewalFailureRejectsAll ==
    RenewalFailed =>
        /\ last.settled =
              {Settlement(q, Outcome("error", 0, 0, last.status)) : q \in EpisodeRequests}
        /\ \A e \in last.settled : ~e.ok
        /\ last.replay = <<>>
        /\ \A q \in EpisodeRequests : req[q] = Settled
        /\ failedQueue = <<>>
        /\ ~isRefreshing

C7_Witness == RenewalFailed /\ last.status = 403 /\ Len(last.queue) = 2

\* C8: a failed renewal issues a logout call exactly when isLoggedIn was true;
\* then the timer is stopped and the session is eventually cleared; otherwise
\* no request is issued and user and isLoggedIn stay as they were.
C8_ForcedLogout ==
    /\ [](RenewalFailed =>
            /\ last.forced # 0 <=> last.wasLoggedIn
            /\ last.forced # 0 =>
                  /\ ~refreshIntervalId
                  /\ req[last.forced] = NewRequest(LogoutUrl))
    /\ [][\A r \in ReqIds :
            ( /\ req[r].pc = "renewing"
              /\ last'.op = "renewal" /\ last'.id = r /\ last'.status # 200
              /\ ~isLoggedIn )
            => ( /\ last'.forced = 0
                 /\ \A q \in ReqIds : req[q].pc = "unused" => req'[q].pc = "unused"
                 /\ user' = user /\ isLoggedIn' = isLoggedIn )
        ]_vars
    /\ (RenewalFailed /\ last.forced # 0) ~> (~isLoggedIn /\ user = "null")

C8_Witness == RenewalFailed /\ last.forced # 0 /\ last.wasLoggedIn

\* C9: no request goes to the transport more than twice.
C9_AtMostTwoSends == \A r \in ReqIds : req[r].sends <= 2

----------------------------------------------------------------------------
\* Properties of the optimistic stores

RolledBack == lastCommit.op # "none" /\ ~lastCommit.ok

\* C10: after the rollback of a rejected mutation the store is in the state it
\* was in when the mutation took its snapshot: items and total_items of the
\* cart, wishlistIds of the wishlist.
C10_RollbackExact ==
    RolledBack =>
        IF lastCommit.op = "toggle"
        THEN wishlistIds = lastCommit.mutation.before
        ELSE CartState = lastCommit.mutation.before

C10_Witness ==
    /\ RolledBack
    /\ lastCommit.op = "update"
    /\ lastCommit.mutation.before.total_items = 3
    /\ Len(items) = 2

IsCartOp(op) == op \in {"update", "remove"}

\* C11: whenever no commit call (and no fetch that could still resynchronise
\* the store) is in flight, the local cart and wishlistIds are the fetched data
\* with exactly the accepted mutations applied: every optimistic apply was
\* either confirmed or undone, whatever the interleaving.
C11_NoPermanentDivergence ==
    InFlight = 0 => (items = accepted.cart /\ wishlistIds = accepted.ids)

\* C12: when the commit of a cart mutation on one product settles (confirm or
\* rollback), the entry shown for every other product that has a mutation in
\* flight is what it was before the settlement.
C12_IndependentKeys ==
    IsCartOp(lastCommit.op) =>
        \A i \in 1..Len(pending) :
            (IsCartOp(pending[i].op)
                /\ pending[i].product # lastCommit.mutation.product)
            => Entry(items, pending[i].product)
                   = Entry(lastCommit.shown, pending[i].product)

\* C13: for every key at most one commit call is in flight: no two pending
\* mutations of the same collection are on the same product.
C13_PerKeySerialized ==
    \A i, j \in 1..Len(pending) :
        (i # j /\ IsCartOp(pending[i].op) = IsCartOp(pending[j].op))
        => pending[i].product # pending[j].product

\* C14: when the commit of an optimistic mutation was rejected (and rolled
\* back), the promise of the operation is rejected, not resolved.
C14_ErrorSurfaced == RolledBack => lastCommit.promise = "rejected"

\* A burst is going on: the row has an edit the debounce timer has not
\* delivered yet.
InBurst == row.mounted /\ row.timer /\ row.quantity # row.debounced

\* C15: during a burst of edits no PATCH is issued (the task that led to a
\* state inside a burst issued none), the displayed quantity follows each edit
\* at once, and the timeout that ends a burst whose last value differs from the
\* stored quantity issues exactly one PATCH, carrying the last value.
C15_DebounceCoalesces ==
    /\ InBurst => lastRow.calls = <<>>
    /\ lastRow.op = "edit" =>
          row.quantity # lastRow.before.quantity /\ row.debounced = lastRow.before.debounced
    /\ (lastRow.op = "fire" /\ lastRow.before.quantity # lastRow.before.debounced)
          => lastRow.calls = <<lastRow.before.quantity>>

\* C16: after the PATCH of a debounced edit was rejected, the row displays the
\* last confirmed quantity of its line.
C16_DisplayReverts ==
    (lastRow.op = "reject" /\ lastCommit.op = "update" /\ row.mounted)
        => row.quantity = Entry(accepted.cart, RowProduct)

\* C17: the task that rolls a rejected commit back issues no commit call, and
\* after it the PATCH calls of the row do not outnumber the debounced edits of
\* the user.
C17_NoAutomaticRetry ==
    lastRow.op = "reject" =>
        (lastRow.calls = <<>> /\ tally.sent <= tally.edits)

Cleared == user = "null" /\ ~isLoggedIn

Collections == <<items, total_items, wishlistIds, wishlistItems>>

NoCollections == <<<<>>, 0, {}, {}>>

\* C18: when the logout forced by a failed renewal has completed, the identity
\* and the collections are cleared: user = null, isLoggedIn = false, no cart
\* items, total_items = 0, wishlistIds and wishlistItems empty.
C18_TerminalClearsAll ==
    [][(forcedId # 0 /\ req[forcedId] # Settled /\ req'[forcedId] = Settled)
          => (Cleared /\ Collections = NoCollections)']_vars

\* C19: the result of a request that was submitted before a logout and
\* settles after that logout completed is applied neither to the session nor
\* to the collections.
C19_StaleDiscarded ==
    [][\A r \in stale :
          (req[r] # Settled /\ req'[r] = Settled)
          => (<<user, isLoggedIn>>' = <<user, isLoggedIn>>
                 /\ Collections' = Collections)]_vars

\* The task that led here handled a 401 of request r.
Got401(r) == last.op = "error" /\ last.id = r /\ last.status = 401

\* C20 as stated: a 401 handled while isRefreshing is true starts no renewal
\* and appends its request to failedQueue.
C20_Original ==
    [][\A r \in ReqIds :
          (isRefreshing /\ Got401(r)')
          => (Renewing' = Renewing /\ failedQueue' = Append(failedQueue, r))]_vars

\* C20, amended: a 401 handled while isRefreshing is true for a request
\* without the _retry mark starts no renewal and settles nobody; the request is
\* appended to failedQueue, which it leaves only when the renewal returns,
\* replayed or rejected with the renewal's error.  With the _retry mark the
\* request is rejected with its own 401.
C20_QueuedNotRenewed ==
    [][\A r \in ReqIds :
          /\ (isRefreshing /\ Got401(r)' /\ ~req[r].retry)
             => /\ Renewing' = Renewing
                /\ failedQueue' = Append(failedQueue, r)
                /\ req'[r].pc = "queued"
                /\ last'.settled = {}
          /\ (isRefreshing /\ Got401(r)' /\ req[r].retry)
             => /\ Renewing' = Renewing
                /\ failedQueue' = failedQueue
                /\ last'.settled
                      = {Settlement(r, Outcome("error", r, req[r].sends, 401))}
          /\ (req[r].pc = "queued" /\ req'[r].pc # "queued")
             => /\ last'.op = "renewal"
                /\ IF last'.status = 200
                   THEN req'[r].pc = "flight" /\ req'[r].sends = req[r].sends + 1
                   ELSE Settlement(r, Outcome("error", 0, 0, last'.status))
                            \in last'.settled]_vars

C20_Witness ==
    /\ \E r \in ReqIds : Got401(r) /\ req[r].pc = "queued"
    /\ Len(failedQueue) = 2
    /\ last.queue # <<>>

\* The renewal calls in flight: the interceptor's and the timer's.
RenewalCalls == Cardinality(Renewing) + proactive

\* The task that led here handled a 401 of a renewal call.
RenewalCallGot401 == last.op \in {"renewal", "proactive"} /\ last.status = 401

\* C21: a 401 of a renewal call (the interceptor's or the timer's) starts no
\* renewal call, puts nothing into failedQueue, hands nothing back to the
\* transport, and the call is over: one renewal call less is in flight, and
\* the request the interceptor renewed for is rejected with the renewal's 401.
C21_RenewalNeverRecurses ==
    [][RenewalCallGot401' =>
          /\ RenewalCalls' = RenewalCalls - 1
          /\ 0 \notin Range(failedQueue')
          /\ last'.replay = <<>>
          /\ last'.op = "renewal" =>
                /\ Settlement(last'.id, Outcome("error", 0, 0, 401)) \in last'.settled
                /\ failedQueue' = <<>> /\ ~isRefreshing']_vars

C21_Witness == last.op = "proactive" /\ last.status = 401 /\ isRefreshing

\* The task that led here handled a failure of request r, which was with the
\* transport before.
Failed(r) == last.op = "error" /\ last.id = r

\* C22: a request that carries the _retry mark and gets 401 again is rejected
\* to its caller with that 401 at once, whether or not a renewal is in
\* progress: no renewal call is started, failedQueue and isRefreshing stay as
\* they are, nothing is replayed and nobody else is settled.
C22_RetriedRejectedAtOnce ==
    [][\A r \in ReqIds :
          (req[r].pc = "flight" /\ req[r].retry /\ Failed(r)' /\ last'.status = 401)
          => /\ req'[r] = Settled
             /\ last'.settled
                   = {Settlement(r, Outcome("error", r, req[r].sends, 401))}
             /\ last'.replay = <<>>
             /\ Renewing' = Renewing
             /\ RenewalCalls' = RenewalCalls
             /\ failedQueue' = failedQueue
             /\ isRefreshing' = isRefreshing
             /\ \A q \in ReqIds \ {r} : req'[q] = req[q]]_vars

\* A replayed trigger is rejected with its second 401 while nothing is being
\* renewed.
C22_Witness ==
    /\ last.op = "error" /\ last.status = 401 /\ ~isRefreshing
    /\ \E s \in last.settled : s.out.att = 2 /\ s.out.status = 401

\* C23: a failure of a request with any status but 401 (403 for the other
\* statuses, 0 for a failure without a response) is rejected to the caller
\* with that failure: no renewal call is started, the request is not put into
\* failedQueue, isRefreshing and failedQueue stay as they are and no other
\* request is touched.
C23_Only401Renews ==
    [][\A r \in ReqIds :
          (req[r].pc = "flight" /\ Failed(r)' /\ last'.status # 401)
          => /\ req'[r] = Settled
             /\ last'.settled = {Settlement(r, Outcome("error", r, req[r].sends,
                                                       last'.status))}
             /\ last'.replay = <<>>
             /\ RenewalCalls' = RenewalCalls
             /\ failedQueue' = failedQueue
             /\ isRefreshing' = isRefreshing
             /\ \A q \in ReqIds \ {r} : req'[q] = req[q]]_vars

\* A request fails without a response while a renewal is in progress and
\* another request waits in failedQueue.
C23_Witness ==
    /\ last.op = "error" /\ last.status = 0 /\ last.settled # {}
    /\ isRefreshing /\ failedQueue # <<>>

\* C24: when the timer's renewal call fails (401 or anything else) the session
\* stays as it is: isLoggedIn, user, isRefreshing and failedQueue are
\* unchanged, no request (so no logout call) is issued or settled, and the
\* timer is running afterwards if it was before.
C24_ProactiveFailureHarmless ==
    [][(proactive' < proactive /\ last'.op = "proactive" /\ last'.status # 200)
       => /\ isLoggedIn' = isLoggedIn
          /\ user' = user
          /\ isRefreshing' = isRefreshing
          /\ failedQueue' = failedQueue
          /\ refreshIntervalId' = refreshIntervalId
          /\ req' = req
          /\ last'.forced = 0 /\ last'.settled = {}]_vars

\* The timer's renewal got 401 in a session that is logged in, and the timer
\* is still running.
C24_Witness ==
    /\ last.op = "proactive" /\ last.status = 401
    /\ isLoggedIn /\ refreshIntervalId /\ ~isRefreshing

\* The sign-in requests: login's and checkAuth's.
SignIns == {r \in ReqIds : req[r].pc = "flight" /\ req[r].url \in {LoginUrl, ProfileUrl}}

\* C25: logout() stops the timer in the task that invokes it, while its POST
\* is still in flight; from then until a login or a checkAuth succeeds the
\* timer is off and no proactive refresh is issued; and every login or
\* checkAuth that succeeds leaves the timer running.
C25_LogoutStopsTimer ==
    /\ [](sinceLogout => ~refreshIntervalId)
    /\ [][/\ proactive' > proactive => ~sinceLogout
          /\ \A r \in ReqIds :
                (req[r].pc = "unused" /\ req'[r].url = LogoutUrl)
                => (req'[r].pc = "flight" /\ ~refreshIntervalId' /\ sinceLogout')
          /\ \A r \in SignIns :
                (last'.op = "response" /\ last'.id = r /\ req'[r] = Settled)
                => (refreshIntervalId' /\ isLoggedIn' /\ ~sinceLogout')]_vars

\* logout() was invoked in a session whose timer has issued a refresh that is
\* still in flight; the logout call has not returned and the timer is off.
C25_Witness ==
    /\ sinceLogout /\ isLoggedIn /\ proactive > 0
    /\ \E r \in ReqIds : req[r].url = LogoutUrl /\ req[r].pc = "flight"

\* C26: on a row that starts within 1..20 the quantity stays within 1..20, and
\* so does the quantity of every PATCH issued; a press of "+" at 20 or of "-"
\* at 1 leaves the row as it was (no timer armed) and calls nothing.
C26_QuantityClamped ==
    /\ row.mounted /\ row.quantity \in 1..20 /\ row.debounced \in 1..20
    /\ \A i \in 1..Len(pending) : pending[i].quantity \in 1..20
    /\ \A i \in 1..Len(lastRow.calls) : lastRow.calls[i] \in 1..20
    /\ lastRow.op = "ignored" =>
          /\ row = lastRow.before
          /\ row.quantity \in {1, 20}
          /\ lastRow.calls = <<>>

\* "+" was pressed at 20 while a PATCH of an earlier edit is in flight.
C26_Witness ==
    /\ lastRow.op = "ignored" /\ row.quantity = 20
    /\ pending # <<>> /\ pending[1].quantity \in 1..19

\* C27: a replayed request (sent again after a successful renewal) that fails,
\* with 401 or anything else, is rejected to its own caller with that failure
\* and nothing more happens: no other request is settled or touched, no
\* renewal call and no logout call is started, failedQueue and isRefreshing
\* stay as they are, and the session changes only as that caller's own
\* continuation changes it.
C27_ReplaySettlesOwnCaller ==
    [][\A r \in ReqIds :
          (req[r].pc = "flight" /\ req[r].sends >= 2 /\ Failed(r)')
          => /\ req'[r] = Settled
             /\ last'.settled = {Settlement(r, Outcome("error", r, req[r].sends,
                                                       last'.status))}
             /\ \A q \in ReqIds \ {r} : req'[q] = req[q]
             /\ RenewalCalls' = RenewalCalls
             /\ failedQueue' = failedQueue
             /\ isRefreshing' = isRefreshing
             /\ Session' = OnSettle(Session, req[r].url, FALSE)]_vars

\* C28: a failed renewal in a logged-in session issues one POST /user/logout/
\* (one new request, the logout), and when that call returns, with whatever
\* status, its caller is settled and that is all: no renewal call and no
\* request is started by it.
C28_OneForcedLogout ==
    [][/\ (last'.op = "renewal" /\ last'.status # 200 /\ last'.wasLoggedIn
           /\ last'.forced # 0)
          => /\ Used' \ Used = {last'.forced}
             /\ req'[last'.forced].url = LogoutUrl
       /\ \A r \in ReqIds :
             (forcedId = r /\ req[r].pc = "flight" /\ last'.id = r
              /\ last'.op \in {"response", "error"})
             => /\ req'[r] = Settled
                /\ RenewalCalls' = RenewalCalls
                /\ isRefreshing' = isRefreshing
                /\ Used' \subseteq Used]_vars

\* The login, checkAuth and logout operations whose call has not settled.
AuthInFlight == Pending({LoginUrl, ProfileUrl, LogoutUrl})

\* C29: whenever no login, checkAuth or logout is in flight, the timer runs
\* exactly when isLoggedIn is true.
C29_TimerIffLoggedIn ==
    AuthInFlight = {} => (refreshIntervalId <=> isLoggedIn)

\* The quantities of the first n entries of items, added up.
RECURSIVE QuantityUpTo(_)
QuantityUpTo(n) == IF n = 0 THEN 0 ELSE items[n].quantity + QuantityUpTo(n - 1)

\* C30: total_items is the sum of the quantities of the entries of items, in
\* every state of the cart store: after fetchCart, addToCart,
\* updateItemQuantity, removeFromCart and after their rollbacks.
C30_TotalIsSum == total_items = QuantityUpTo(Len(items))

\* A rejected commit restored a cart of two lines over a state that another
\* call had changed meanwhile.
C30_Witness ==
    /\ RolledBack /\ IsCartOp(lastCommit.op)
    /\ Len(items) = 2 /\ total_items = 2 * MaxQty
    /\ pending # <<>>

====
